---- MODULE Spec2Model ----
(***************************************************************************)
(* Energy Point Log: the points ledger of frappe/social.                   *)
(*                                                                         *)
(* The ledger is the table `tabEnergy Point Log`, modelled as the sequence *)
(* of its rows in insertion order; a row's name is its position, and its   *)
(* creation timestamp is its position too (later inserts are later).       *)
(* Each whitelisted function of energy_point_log.py is one action; the     *)
(* functions themselves are operators from a database state to a result,   *)
(* so that an action is the whole request.                                 *)
(*                                                                         *)
(* Spec       the requests one after the other (each an atomic step)       *)
(* SpecTotals the aggregate query on ledgers of up to MaxRows rows         *)
(* SpecConc   review() in two steps, two requests interleaved              *)
(***************************************************************************)
EXTENDS Integers, Sequences, FiniteSets, TLC

\* ------------------------------------------------------------------ bounds
MaxLedger == 4
MaxRows == 4
MaxConcLedger == 5

\* ------------------------------------------------------------------ inputs
Users          == {"alice", "bob"}
SystemManagers == {"alice"}
Rules          == {"rule1"}
Reasons        == {"good"}
ReviewTypes    == {"Appreciation", "Criticism"}
DocNames       == {1}
AutoPoints     == {3}
GrantPoints    == {2}
ReviewPoints   == {-2, 3}
PythonVersions == {2, 3}
\* the rows the aggregate query is tried on: (type, points)
RowKinds       == {<<"Auto", 10>>, <<"Appreciation", 5>>, <<"Review", -3>>,
                   <<"Review", 2>>}
\* the reviews that are made concurrently
ConcCallers       == {"alice"}
ConcDocNames      == {1, 2}
ConcReviewPoints  == {2}
ConcReviewTypes   == {"Appreciation"}
\* the session in which the automated rules fire
RuleSessions   == {"alice"}

\* Python's None, for text fields and for names (names are positive)
None   == "None"
NoName == 0
EPL    == "Energy Point Log"
Task   == "Task"

VARIABLES ledger, alerts, mails, ret, req
vars == <<ledger, alerts, mails, ret, req>>

\* the database and the side channels as one value the functions transform
DB == [ledger |-> ledger, alerts |-> alerts, mails |-> mails]

Abs(x) == IF x < 0 THEN -x ELSE x

\* cint() of a value that already is an integer
cint(x) == x

\* ------------------------------------------------------- EnergyPointLog
\* variant: the self-review check left out
validate_off(doc) == TRUE

\* validate passes (TRUE) or throws (FALSE)
validate(doc) ==
    ~(doc.type \in {"Appreciation", "Criticism"} /\ doc.user = doc.owner)

\* the indicator of the alert, "" for the empty alert dict
get_alert_dict(doc) ==
    CASE doc.type = "Auto"         -> "green"
      [] doc.type = "Appreciation" -> "green"
      [] doc.type = "Criticism"    -> "red"
      [] doc.type = "Revert"       -> "red"
      [] OTHER                     -> ""

send_review_mail(S, doc) ==
    IF doc.type \in {"Appreciation", "Criticism"}
    THEN [S EXCEPT !.mails = @ \cup {doc.name}]
    ELSE S

after_insert(S, doc) ==
    IF get_alert_dict(doc) # ""
    THEN send_review_mail([S EXCEPT !.alerts = @ \cup {doc.name}], doc)
    ELSE S

\* Document.insert as session user `caller`: name, owner and creation are
\* set, validate runs, the row is written, after_insert runs.
insert(S, caller, fields) ==
    LET doc == [fields EXCEPT !.name = Len(S.ledger) + 1,
                              !.owner = caller,
                              !.creation = Len(S.ledger) + 1]
    IN IF validate(doc)
       THEN [S |-> after_insert([S EXCEPT !.ledger = Append(@, doc)], doc),
             out |-> "ok", name |-> doc.name]
       ELSE [S |-> S, out |-> "ValidationError", name |-> NoName]

new_doc == [name |-> NoName, owner |-> None, creation |-> 0,
            user |-> None, type |-> "Auto", points |-> 0, reason |-> None,
            rule |-> None, reference_doctype |-> None,
            reference_name |-> NoName, reverted |-> FALSE,
            revert_of |-> NoName]

\* ------------------------------------------------------- Entry Writer
\* variant: the existence check left out
log_exists_never(S, user, rule, ref_doctype, ref_name) == FALSE

log_exists(S, user, rule, ref_doctype, ref_name) ==
    \E i \in 1..Len(S.ledger) :
        /\ S.ledger[i].user = user
        /\ S.ledger[i].rule = rule
        /\ S.ledger[i].reference_doctype = ref_doctype
        /\ S.ledger[i].reference_name = ref_name

create_energy_points_log(S, caller, ref_doctype, ref_name, doc) ==
    IF log_exists(S, doc.user, doc.rule, ref_doctype, ref_name)
    THEN [S |-> S, out |-> "none", name |-> NoName]
    ELSE insert(S, caller,
                [new_doc EXCEPT !.reference_doctype = ref_doctype,
                                !.reference_name = ref_name,
                                !.type = doc.type,
                                !.reason = doc.reason,
                                !.points = doc.points,
                                !.user = doc.user,
                                !.rule = doc.rule])

\* variant: only credits are written
create_review_points_log_credit_only(S, caller, user, points, reason, doctype, docname) ==
    IF points <= 0
    THEN [S |-> S, out |-> "ok", name |-> NoName]
    ELSE insert(S, caller,
                [new_doc EXCEPT !.points = points,
                                !.type = "Review",
                                !.user = user,
                                !.reason = reason,
                                !.reference_doctype = doctype,
                                !.reference_name = docname])

\* variant: the reason is not passed on
create_review_points_log_no_reason(S, caller, user, points, reason, doctype, docname) ==
    insert(S, caller,
           [new_doc EXCEPT !.points = points,
                           !.type = "Review",
                           !.user = user,
                           !.reference_doctype = doctype,
                           !.reference_name = docname])

create_review_points_log(S, caller, user, points, reason, doctype, docname) ==
    insert(S, caller,
           [new_doc EXCEPT !.points = points,
                           !.type = "Review",
                           !.user = user,
                           !.reason = reason,
                           !.reference_doctype = doctype,
                           !.reference_name = docname])

\* frappe.only_for('System Manager')
only_for(caller) == caller \in SystemManagers

add_review_points(S, caller, user, points) ==
    IF ~only_for(caller)
    THEN [S |-> S, out |-> "PermissionError", name |-> NoName]
    ELSE [create_review_points_log(S, caller, user, points, None, None, NoName)
            EXCEPT !.name = NoName]
\* ------------------------------------------------------------ Aggregator
NoDate == 0

\* the value bound to the `creation` >= %s placeholder: line 119 appends
\* the text of the WHERE clause itself, never from_date (which would be
\* [kind |-> "date", date |-> from_date])
creation_value(user, from_date) == [kind |-> "text", date |-> NoDate]

\* `creation` >= value in SQL.  Against a text that is no date the answer
\* is the database's, the same for every row: text_ge.
creation_ge(creation, value, text_ge) ==
    IF value.kind = "date" THEN creation >= value.date ELSE text_ge

\* the WHERE clause of the query, for one row
where(doc, user, from_date, text_ge) ==
    /\ (user # None => doc.user = user)
    /\ (from_date # NoDate =>
            creation_ge(doc.creation, creation_value(user, from_date), text_ge))

\* the three CASE expressions of the SELECT list, for one row
energy_points_of(doc) == IF doc.type # "Review" THEN doc.points ELSE 0
review_points_of(doc) == IF doc.type = "Review" THEN doc.points ELSE 0
given_points_of(doc) ==
    IF doc.type = "Review" /\ doc.points < 0 THEN Abs(doc.points) ELSE 0

RECURSIVE Sum(_)
\* SUM() over a column
Sum(col) == IF col = <<>> THEN 0 ELSE Head(col) + Sum(Tail(col))

\* GROUP BY `user`: one result row per user with a row in the WHERE clause
get_user_energy_and_review_points(L, user, from_date, text_ge) ==
    LET rows(u) == SelectSeq(L, LAMBDA d :
                        d.user = u /\ where(d, user, from_date, text_ge))
        groups == {u \in Users : rows(u) # <<>>}
    IN [u \in groups |->
          [energy_points |->
              Sum([i \in 1..Len(rows(u)) |-> energy_points_of(rows(u)[i])]),
           review_points |->
              Sum([i \in 1..Len(rows(u)) |-> review_points_of(rows(u)[i])]),
           given_points |->
              Sum([i \in 1..Len(rows(u)) |-> given_points_of(rows(u)[i])])]]

\* variant: energy_points read for review_points
get_energy_points_wrong_column(L, user) ==
    LET points == get_user_energy_and_review_points(L, user, NoDate, TRUE)
    IN IF user \in DOMAIN points
       THEN [none |-> FALSE, review_points |-> points[user].energy_points]
       ELSE [none |-> TRUE, review_points |-> 0]

\* a frappe._dict: an absent key reads as None (none = TRUE)
get_energy_points(L, user) ==
    LET points == get_user_energy_and_review_points(L, user, NoDate, TRUE)
    IN IF user \in DOMAIN points
       THEN [none |-> FALSE, review_points |-> points[user].review_points]
       ELSE [none |-> TRUE, review_points |-> 0]

\* ------------------------------------------------------ Review Workflow
\* Python's current_review_points < points: None sorts below every number
\* in Python 2 and cannot be ordered in Python 3
less_than(cur, points, python) ==
    IF cur.none
    THEN (IF python = 2 THEN "True" ELSE "TypeError")
    ELSE (IF cur.review_points < points THEN "True" ELSE "False")

\* variant: the balance is read again at the check
balance_read_again(read, S, caller) == get_energy_points(S.ledger, caller)

\* the balance line 147 compares: the local variable line 144 assigned,
\* whatever the ledger S holds by now
balance_at_check(read, S, caller) == read

\* review() from line 145 on, current_review_points having been read
review_checked(S, caller, current_review_points, python, docname, points, to_user, reason, review_type) ==
    LET pts == Abs(cint(points))
        lt  == less_than(balance_at_check(current_review_points, S, caller),
                         pts, python)
        review_doc == create_energy_points_log(S, caller, Task, docname,
                        [type |-> review_type, reason |-> reason,
                         points |-> IF review_type = "Appreciation" THEN pts ELSE -pts,
                         user |-> to_user, rule |-> None])
        debit == create_review_points_log(review_doc.S, caller, caller, -pts,
                        reason, EPL, review_doc.name)
    IN CASE lt = "TypeError" -> [S |-> S, out |-> "TypeError", name |-> NoName]
         [] lt = "True"      -> [S |-> S, out |-> "none", name |-> NoName]
         [] review_doc.out = "ValidationError" -> review_doc
         \* review_doc is None: review_doc.doctype raises
         [] review_doc.out = "none" -> [S |-> S, out |-> "AttributeError", name |-> NoName]
         [] OTHER -> [S |-> debit.S, out |-> "ok", name |-> review_doc.name]

review(S, caller, python, docname, points, to_user, reason, review_type) ==
    review_checked(S, caller, get_energy_points(S.ledger, caller), python,
                   docname, points, to_user, reason, review_type)

\* ------------------------------------------------------ Revert Workflow
\* variant: the type check left out
revert_any_type(S, caller, name, reason) ==
    IF ~only_for(caller)
    THEN [S |-> S, out |-> "PermissionError", name |-> NoName]
    ELSE IF name \notin 1..Len(S.ledger)
    THEN [S |-> S, out |-> "DoesNotExistError", name |-> NoName]
    ELSE insert([S EXCEPT !.ledger[name].reverted = TRUE], caller,
                [new_doc EXCEPT !.points = -(S.ledger[name].points),
                                !.type = "Revert",
                                !.user = S.ledger[name].user,
                                !.reason = reason,
                                !.reference_doctype = S.ledger[name].reference_doctype,
                                !.reference_name = S.ledger[name].reference_name,
                                !.revert_of = name])

revert(S, caller, name, reason) ==
    IF ~only_for(caller)
    THEN [S |-> S, out |-> "PermissionError", name |-> NoName]
    ELSE IF name \notin 1..Len(S.ledger)
    THEN [S |-> S, out |-> "DoesNotExistError", name |-> NoName]
    ELSE LET doc_to_revert == S.ledger[name]
         IN IF doc_to_revert.type # "Auto"
            THEN [S |-> S, out |-> "ValidationError", name |-> NoName]
            ELSE insert([S EXCEPT !.ledger[name].reverted = TRUE], caller,
                        [new_doc EXCEPT !.points = -(doc_to_revert.points),
                                        !.type = "Revert",
                                        !.user = doc_to_revert.user,
                                        !.reason = reason,
                                        !.reference_doctype = doc_to_revert.reference_doctype,
                                        !.reference_name = doc_to_revert.reference_name,
                                        !.revert_of = doc_to_revert.name])

IsError(out) == out \notin {"ok", "none"}
\* ---------------------------------------------------------------- state
Procs == {"p1", "p2"}

idle == [pc |-> "idle"]

Init ==
    /\ ledger = <<>>
    /\ alerts = {}
    /\ mails = {}
    /\ ret = [op |-> "none"]
    /\ req = [p \in Procs |-> idle]

\* the request's effect on the database, and what the caller got back;
\* a request whose rows do not fit the bound is not made
RespondWithin(bound, r, op, caller, args) ==
    /\ Len(r.S.ledger) <= bound
    /\ ledger' = r.S.ledger
    /\ alerts' = r.S.alerts
    /\ mails' = r.S.mails
    /\ ret' = [op |-> op, caller |-> caller, args |-> args,
               out |-> r.out, name |-> r.name]

Respond(r, op, caller, args) == RespondWithin(MaxLedger, r, op, caller, args)

\* an automated rule fires: create_energy_points_log with the rule's fields
CreateAuto ==
    \E caller \in RuleSessions, user \in Users, rule \in Rules,
       docname \in DocNames, points \in AutoPoints :
        /\ Respond(create_energy_points_log(DB, caller, Task, docname,
                      [type |-> "Auto", reason |-> None, points |-> points,
                       user |-> user, rule |-> rule]),
                   "create_energy_points_log", caller,
                   [user |-> user, rule |-> rule, reference_doctype |-> Task,
                    reference_name |-> docname, points |-> points])
        /\ UNCHANGED req

AddReviewPoints ==
    \E caller \in Users, user \in Users, points \in GrantPoints :
        /\ Respond(add_review_points(DB, caller, user, points),
                   "add_review_points", caller,
                   [user |-> user, points |-> points])
        /\ UNCHANGED req

Review ==
    \E caller \in Users, python \in PythonVersions, docname \in DocNames,
       points \in ReviewPoints, to_user \in Users, reason \in Reasons,
       review_type \in ReviewTypes :
        /\ Respond(review(DB, caller, python, docname, points, to_user,
                          reason, review_type),
                   "review", caller,
                   [docname |-> docname, points |-> points,
                    to_user |-> to_user, reason |-> reason,
                    review_type |-> review_type])
        /\ UNCHANGED req

Revert ==
    \E caller \in Users, name \in 1..(Len(ledger) + 1), reason \in Reasons :
        /\ Respond(revert(DB, caller, name, reason), "revert", caller,
                   [name |-> name, reason |-> reason])
        /\ UNCHANGED req

Next == CreateAuto \/ AddReviewPoints \/ Review \/ Revert

Spec == Init /\ [][Next]_vars
\* ------------------------------------------- the aggregate query alone
\* a ledger of up to MaxRows rows of RowKinds; an Appreciation row is owned
\* by the other user, as validate demands
RowOf(i, user, kind) ==
    [new_doc EXCEPT !.name = i, !.creation = i, !.user = user,
                    !.owner = IF kind[1] = "Appreciation"
                              THEN CHOOSE o \in Users : o # user
                              ELSE "alice",
                    !.type = kind[1], !.points = kind[2]]

InitTotals ==
    /\ \E n \in 0..MaxRows :
         \E us \in [1..n -> Users], ks \in [1..n -> RowKinds] :
            ledger = [i \in 1..n |-> RowOf(i, us[i], ks[i])]
    /\ alerts = {}
    /\ mails = {}
    /\ ret = [op |-> "none"]
    /\ req = [p \in Procs |-> idle]

\* get_user_energy_and_review_points(user, from_date), as_dict
GetPoints ==
    \E user \in Users \cup {None}, from_date \in 0..(Len(ledger) + 1),
       text_ge \in BOOLEAN :
        /\ ret' = [op |-> "get_user_energy_and_review_points",
                   args |-> [user |-> user, from_date |-> from_date],
                   totals |-> get_user_energy_and_review_points(
                                  ledger, user, from_date, text_ge)]
        /\ UNCHANGED <<ledger, alerts, mails, req>>

NextTotals == GetPoints

SpecTotals == InitTotals /\ [][NextTotals]_vars

\* ------------------------------------------------ concurrent requests
\* review() in two steps: line 144 reads the balance, lines 145-167 check
\* it and write; another request may run in between.
ReviewRead(p) ==
    \E caller \in ConcCallers, docname \in ConcDocNames,
       points \in ConcReviewPoints, to_user \in Users, reason \in Reasons,
       review_type \in ConcReviewTypes :
        /\ req[p].pc = "idle"
        /\ req' = [req EXCEPT ![p] =
                     [pc |-> "read", caller |-> caller,
                      current_review_points |-> get_energy_points(ledger, caller),
                      args |-> [docname |-> docname, points |-> points,
                                to_user |-> to_user, reason |-> reason,
                                review_type |-> review_type]]]
        /\ UNCHANGED <<ledger, alerts, mails, ret>>

ReviewWrite(p) ==
    \E python \in PythonVersions :
        /\ req[p].pc = "read"
        /\ RespondWithin(MaxConcLedger,
                review_checked(DB, req[p].caller, req[p].current_review_points,
                               python, req[p].args.docname, req[p].args.points,
                               req[p].args.to_user, req[p].args.reason,
                               req[p].args.review_type),
                "review", req[p].caller, req[p].args)
        /\ req' = [req EXCEPT ![p] = idle]

NextConc ==
    \/ AddReviewPoints
    \/ \E p \in Procs : ReviewRead(p)
    \/ \E p \in Procs : ReviewWrite(p)

SpecConc == Init /\ [][NextConc]_vars
\* ====================================================== the properties
\* what the properties say of a ledger, computed from its rows alone
RECURSIVE SumPoints(_, _)
SumPoints(L, I) ==
    IF I = {} THEN 0
    ELSE LET i == CHOOSE x \in I : TRUE
         IN L[i].points + SumPoints(L, I \ {i})

RowsOf(L, u) == {i \in 1..Len(L) : L[i].user = u}
HasBalance(L, u) == RowsOf(L, u) # {}
ReviewBalance(L, u) == SumPoints(L, {i \in RowsOf(L, u) : L[i].type = "Review"})
KeyOf(e) == <<e.user, e.rule, e.reference_doctype, e.reference_name>>
Added(n) == /\ Len(ledger') = Len(ledger) + n
            /\ SubSeq(ledger', 1, Len(ledger)) = ledger
Untouched == ledger' = ledger /\ alerts' = alerts /\ mails' = mails

\* the two rows of a review of `pts` points by `caller`: the target-facing
\* row t and the Review row d that debits the reviewer and refers to t
LinkedPair(t, d, caller, pts) ==
    /\ t.type \in {"Appreciation", "Criticism"}
    /\ d.type = "Review"
    /\ d.user = caller
    /\ d.points = -pts
    /\ Abs(t.points) = pts
    /\ d.reference_doctype = EPL
    /\ d.reference_name = t.name
    /\ d.reason = t.reason

\* C1: a review request adds no row to the ledger or exactly two, the
\* target-facing row followed by the Review row that refers to it; it never
\* leaves one of the two.
ReviewAllOrNothing ==
    [][ret'.op = "review" =>
        \/ ledger' = ledger
        \/ /\ Added(2)
           /\ LinkedPair(ledger'[Len(ledger) + 1], ledger'[Len(ledger) + 2],
                         ret'.caller, Abs(ret'.args.points))]_vars

ReviewWroteBoth ==
    /\ ret.op = "review"
    /\ ret.out = "ok"
    /\ Len(ledger) >= 2
    /\ ledger[Len(ledger)].type = "Review"
    /\ ledger[Len(ledger)].reference_name = Len(ledger) - 1

AutoEntryOnce ==
    /\ [](\A i, j \in 1..Len(ledger) :
            (i # j /\ ledger[i].rule # None) => KeyOf(ledger[i]) # KeyOf(ledger[j]))
    /\ [][ret'.op = "create_energy_points_log" =>
            LET a == ret'.args
                key == <<a.user, a.rule, a.reference_doctype, a.reference_name>>
            IN IF \E i \in 1..Len(ledger) : KeyOf(ledger[i]) = key
               THEN ret'.out = "none" /\ ret'.name = NoName /\ Untouched
               ELSE /\ Added(1)
                    /\ KeyOf(ledger'[Len(ledger')]) = key
                    /\ ledger'[Len(ledger')].points = a.points
                    /\ ret'.out = "ok"
                    /\ ret'.name = Len(ledger')]_vars

AutoEntrySkipped ==
    /\ ret.op = "create_energy_points_log"
    /\ ret.out = "none"
    /\ Cardinality({i \in 1..Len(ledger) :
          KeyOf(ledger[i]) = <<ret.args.user, ret.args.rule,
                               ret.args.reference_doctype,
                               ret.args.reference_name>>}) = 1

RevertOnlyAuto ==
    [][ret'.op = "revert" =>
        LET n == ret'.args.name
        IN /\ (n \in 1..Len(ledger) /\ ledger[n].type # "Auto")
                => IsError(ret'.out) /\ Untouched
           /\ (n \in 1..Len(ledger) /\ ledger[n].type = "Auto"
               /\ ret'.caller \in SystemManagers)
                => LET r == ledger'[Len(ledger')]
                   IN /\ Len(ledger') = Len(ledger) + 1
                      /\ SubSeq(ledger', 1, Len(ledger))
                           = [ledger EXCEPT ![n].reverted = TRUE]
                      /\ r.type = "Revert"
                      /\ r.points = -ledger[n].points
                      /\ r.user = ledger[n].user
                      /\ r.reference_doctype = ledger[n].reference_doctype
                      /\ r.reference_name = ledger[n].reference_name
                      /\ r.revert_of = n
                      /\ ret'.out = "ok"
                      /\ ret'.name = r.name]_vars

\* an Auto row has been reverted, and a revert of the Revert row was refused
RevertRefusedAfterRevert ==
    /\ ret.op = "revert"
    /\ ret.caller \in SystemManagers
    /\ IsError(ret.out)
    /\ ret.args.name \in 1..Len(ledger)
    /\ ledger[ret.args.name].type = "Revert"
    /\ ledger[ledger[ret.args.name].revert_of].reverted

\* C6: no Appreciation or Criticism row has user = owner, and a review of
\* oneself writes no row, sends no alert and no mail, and is rejected with
\* an error once the balance check has let it through.
NoSelfReview ==
    /\ [](\A i \in 1..Len(ledger) :
            ledger[i].type \in {"Appreciation", "Criticism"}
                => ledger[i].user # ledger[i].owner)
    /\ [][(ret'.op = "review" /\ ret'.args.to_user = ret'.caller)
          => /\ Untouched
             /\ ret'.out # "ok"
             /\ (/\ HasBalance(ledger, ret'.caller)
                 /\ ReviewBalance(ledger, ret'.caller) >= Abs(ret'.args.points))
                  => IsError(ret'.out)]_vars

SelfReviewRejected ==
    /\ ret.op = "review"
    /\ ret.args.to_user = ret.caller
    /\ ret.out = "ValidationError"
    /\ ReviewBalance(ledger, ret.caller) >= Abs(ret.args.points)

\* C7: the totals of get_user_energy_and_review_points(user, from_date) are,
\* for each user with a selected row, the sums over the selected rows, the
\* selected rows being those of `user` (if given) created at or after
\* from_date (if given).
Selected(L, user, from_date) ==
    {i \in 1..Len(L) : /\ (user # None => L[i].user = user)
                       /\ (from_date # NoDate => L[i].creation >= from_date)}

ExpectedTotals(L, user, from_date) ==
    LET sel == Selected(L, user, from_date)
        of(u) == {i \in sel : L[i].user = u}
    IN [u \in {L[i].user : i \in sel} |->
          [energy_points |-> SumPoints(L, {i \in of(u) : L[i].type # "Review"}),
           review_points |-> SumPoints(L, {i \in of(u) : L[i].type = "Review"}),
           given_points  |-> -SumPoints(L, {i \in of(u) :
                                  L[i].type = "Review" /\ L[i].points < 0})]]

TotalsExact ==
    ret.op = "get_user_energy_and_review_points"
        => ret.totals = ExpectedTotals(ledger, ret.args.user, ret.args.from_date)

\* C8 as stated: every Review row is the debit of a review, paired with the
\* target-facing row it refers to.
EveryReviewRowPaired ==
    \A i \in 1..Len(ledger) :
        ledger[i].type = "Review"
            => /\ ledger[i].reference_doctype = EPL
               /\ ledger[i].reference_name \in 1..Len(ledger)
               /\ LinkedPair(ledger[ledger[i].reference_name], ledger[i],
                             ledger[i].user, Abs(ledger[i].points))

\* C8, amended: every Review row is either a grant of add_review_points (no
\* reference, no reason) or the debit of a review, paired with the
\* target-facing row it refers to: same magnitude, same reason.
ReviewRowGrantOrPaired ==
    \A i \in 1..Len(ledger) :
        ledger[i].type = "Review"
            => \/ /\ ledger[i].reference_doctype = None
                  /\ ledger[i].reference_name = NoName
                  /\ ledger[i].reason = None
               \/ /\ ledger[i].reference_doctype = EPL
                  /\ ledger[i].reference_name \in 1..Len(ledger)
                  /\ LinkedPair(ledger[ledger[i].reference_name], ledger[i],
                                ledger[i].user, Abs(ledger[i].points))

GrantAndPairInLedger ==
    /\ \E i \in 1..Len(ledger) :
          ledger[i].type = "Review" /\ ledger[i].reference_doctype = None
    /\ \E i \in 1..Len(ledger) :
          ledger[i].type = "Review" /\ ledger[i].reference_doctype = EPL

\* C9: a review that read a sufficient balance writes its two rows whatever
\* the balance has become since: two reviews of one caller that both read
\* before either writes both succeed.
StaleBalanceStillWrites ==
    [][\A p \in Procs :
        (/\ req[p].pc = "read"
         /\ req'[p].pc = "idle"
         /\ ~req[p].current_review_points.none
         /\ req[p].current_review_points.review_points >= Abs(req[p].args.points)
         /\ req[p].args.to_user # req[p].caller
         /\ ~\E i \in 1..Len(ledger) :
               KeyOf(ledger[i]) = <<req[p].args.to_user, None, Task,
                                    req[p].args.docname>>)
        => /\ Added(2)
           /\ LinkedPair(ledger'[Len(ledger) + 1], ledger'[Len(ledger) + 2],
                         req[p].caller, Abs(req[p].args.points))
           /\ ret'.out = "ok"]_vars

\* the allowance is overspent although every grant was non-negative
Overspent ==
    /\ \E u \in Users : ReviewBalance(ledger, u) < 0
    /\ \A i \in 1..Len(ledger) :
          (ledger[i].type = "Review" /\ ledger[i].reference_doctype = None)
              => ledger[i].points >= 0

\* C10: an Auto row that is reverted has exactly one Revert row referring
\* to it (so the two cancel), and one that is not reverted has none.
RevertCancelsExactly ==
    \A i \in 1..Len(ledger) :
        ledger[i].type = "Auto"
            => LET reverts == {j \in 1..Len(ledger) :
                                  ledger[j].type = "Revert" /\ ledger[j].revert_of = i}
               IN /\ Cardinality(reverts) = (IF ledger[i].reverted THEN 1 ELSE 0)
                  /\ ledger[i].reverted
                        => ledger[i].points + SumPoints(ledger, reverts) = 0
====
